---------------------------- MODULE Spec2Model ----------------------------
(***************************************************************************)
(* The rustdoc implementors file doc/implementors/core/str/traits/         *)
(* trait.FromStr.js: an immediately invoked function that builds the table *)
(* `implementors` key by key (lines 2-42) and then, on line 43, either     *)
(* calls window.register_implementors with it or stores it in              *)
(* window.pending_implementors.                                            *)
(*                                                                         *)
(* The script is modelled statement by statement.  It runs to completion   *)
(* on the page's single thread; the host page acts on the two global slots *)
(* only between runs.                                                      *)
(***************************************************************************)
EXTENDS Integers, Sequences, FiniteSets, TLC

(***************************************************************************)
(* The array literals of lines 2-42, one definition per assignment         *)
(* statement implementors["<key>"] = [...]: a sequence of records with the *)
(* fields text, synthetic and types, copied from the source.               *)
(***************************************************************************)
implementors_arrayvec ==
  <<
    [text |-> "impl&lt;A&gt; <a class=\"trait\" href=\"https://doc.rust-lang.org/1.58.0/core/str/traits/trait.FromStr.html\" title=\"trait core::str::traits::FromStr\">FromStr</a> for <a class=\"struct\" href=\"arrayvec/struct.ArrayString.html\" title=\"struct arrayvec::ArrayString\">ArrayString</a>&lt;A&gt; <span class=\"where fmt-newline\">where<br>&nbsp;&nbsp;&nbsp;&nbsp;A: <a class=\"trait\" href=\"arrayvec/trait.Array.html\" title=\"trait arrayvec::Array\">Array</a>&lt;Item = <a class=\"primitive\" href=\"https://doc.rust-lang.org/1.58.0/core/primitive.u8.html\">u8</a>&gt; + <a class=\"trait\" href=\"https://doc.rust-lang.org/1.58.0/core/marker/trait.Copy.html\" title=\"trait core::marker::Copy\">Copy</a>,&nbsp;</span>",
     synthetic |-> FALSE,
     types |-> <<"arrayvec::array_string::ArrayString">>]
  >>

implementors_ascii ==
  <<
    [text |-> "impl <a class=\"trait\" href=\"https://doc.rust-lang.org/1.58.0/core/str/traits/trait.FromStr.html\" title=\"trait core::str::traits::FromStr\">FromStr</a> for <a class=\"struct\" href=\"ascii/struct.AsciiString.html\" title=\"struct ascii::AsciiString\">AsciiString</a>",
     synthetic |-> FALSE,
     types |-> <<"ascii::ascii_string::AsciiString">>]
  >>

implementors_async_std ==
  <<
    [text |-> "impl <a class=\"trait\" href=\"https://doc.rust-lang.org/1.58.0/core/str/traits/trait.FromStr.html\" title=\"trait core::str::traits::FromStr\">FromStr</a> for <a class=\"struct\" href=\"async_std/path/struct.PathBuf.html\" title=\"struct async_std::path::PathBuf\">PathBuf</a>",
     synthetic |-> FALSE,
     types |-> <<"async_std::path::pathbuf::PathBuf">>]
  >>

implementors_bigdecimal ==
  <<
    [text |-> "impl <a class=\"trait\" href=\"https://doc.rust-lang.org/1.58.0/core/str/traits/trait.FromStr.html\" title=\"trait core::str::traits::FromStr\">FromStr</a> for <a class=\"struct\" href=\"bigdecimal/struct.BigDecimal.html\" title=\"struct bigdecimal::BigDecimal\">BigDecimal</a>",
     synthetic |-> FALSE,
     types |-> <<"bigdecimal::BigDecimal">>]
  >>

implementors_bson ==
  <<
    [text |-> "impl <a class=\"trait\" href=\"https://doc.rust-lang.org/1.58.0/core/str/traits/trait.FromStr.html\" title=\"trait core::str::traits::FromStr\">FromStr</a> for <a class=\"struct\" href=\"bson/oid/struct.ObjectId.html\" title=\"struct bson::oid::ObjectId\">ObjectId</a>",
     synthetic |-> FALSE,
     types |-> <<"bson::oid::ObjectId">>]
  >>

implementors_chrono ==
  <<
    [text |-> "impl <a class=\"trait\" href=\"https://doc.rust-lang.org/1.58.0/core/str/traits/trait.FromStr.html\" title=\"trait core::str::traits::FromStr\">FromStr</a> for <a class=\"struct\" href=\"chrono/naive/struct.NaiveDate.html\" title=\"struct chrono::naive::NaiveDate\">NaiveDate</a>",
     synthetic |-> FALSE,
     types |-> <<"chrono::naive::date::NaiveDate">>],
    [text |-> "impl <a class=\"trait\" href=\"https://doc.rust-lang.org/1.58.0/core/str/traits/trait.FromStr.html\" title=\"trait core::str::traits::FromStr\">FromStr</a> for <a class=\"struct\" href=\"chrono/naive/struct.NaiveDateTime.html\" title=\"struct chrono::naive::NaiveDateTime\">NaiveDateTime</a>",
     synthetic |-> FALSE,
     types |-> <<"chrono::naive::datetime::NaiveDateTime">>],
    [text |-> "impl <a class=\"trait\" href=\"https://doc.rust-lang.org/1.58.0/core/str/traits/trait.FromStr.html\" title=\"trait core::str::traits::FromStr\">FromStr</a> for <a class=\"struct\" href=\"chrono/naive/struct.NaiveTime.html\" title=\"struct chrono::naive::NaiveTime\">NaiveTime</a>",
     synthetic |-> FALSE,
     types |-> <<"chrono::naive::time::NaiveTime">>],
    [text |-> "impl <a class=\"trait\" href=\"https://doc.rust-lang.org/1.58.0/core/str/traits/trait.FromStr.html\" title=\"trait core::str::traits::FromStr\">FromStr</a> for <a class=\"struct\" href=\"chrono/struct.DateTime.html\" title=\"struct chrono::DateTime\">DateTime</a>&lt;<a class=\"struct\" href=\"chrono/offset/struct.Utc.html\" title=\"struct chrono::offset::Utc\">Utc</a>&gt;",
     synthetic |-> FALSE,
     types |-> <<"chrono::datetime::DateTime">>],
    [text |-> "impl <a class=\"trait\" href=\"https://doc.rust-lang.org/1.58.0/core/str/traits/trait.FromStr.html\" title=\"trait core::str::traits::FromStr\">FromStr</a> for <a class=\"struct\" href=\"chrono/struct.DateTime.html\" title=\"struct chrono::DateTime\">DateTime</a>&lt;<a class=\"struct\" href=\"chrono/offset/struct.Local.html\" title=\"struct chrono::offset::Local\">Local</a>&gt;",
     synthetic |-> FALSE,
     types |-> <<"chrono::datetime::DateTime">>],
    [text |-> "impl <a class=\"trait\" href=\"https://doc.rust-lang.org/1.58.0/core/str/traits/trait.FromStr.html\" title=\"trait core::str::traits::FromStr\">FromStr</a> for <a class=\"struct\" href=\"chrono/struct.DateTime.html\" title=\"struct chrono::DateTime\">DateTime</a>&lt;<a class=\"struct\" href=\"chrono/offset/struct.FixedOffset.html\" title=\"struct chrono::offset::FixedOffset\">FixedOffset</a>&gt;",
     synthetic |-> FALSE,
     types |-> <<"chrono::datetime::DateTime">>],
    [text |-> "impl <a class=\"trait\" href=\"https://doc.rust-lang.org/1.58.0/core/str/traits/trait.FromStr.html\" title=\"trait core::str::traits::FromStr\">FromStr</a> for <a class=\"enum\" href=\"chrono/enum.Weekday.html\" title=\"enum chrono::Weekday\">Weekday</a>",
     synthetic |-> FALSE,
     types |-> <<"chrono::Weekday">>],
    [text |-> "impl <a class=\"trait\" href=\"https://doc.rust-lang.org/1.58.0/core/str/traits/trait.FromStr.html\" title=\"trait core::str::traits::FromStr\">FromStr</a> for <a class=\"enum\" href=\"chrono/enum.Month.html\" title=\"enum chrono::Month\">Month</a>",
     synthetic |-> FALSE,
     types |-> <<"chrono::Month">>]
  >>

implementors_clap ==
  <<
    [text |-> "impl <a class=\"trait\" href=\"https://doc.rust-lang.org/1.58.0/core/str/traits/trait.FromStr.html\" title=\"trait core::str::traits::FromStr\">FromStr</a> for <a class=\"enum\" href=\"clap/enum.AppSettings.html\" title=\"enum clap::AppSettings\">AppSettings</a>",
     synthetic |-> FALSE,
     types |-> <<"clap::app::settings::AppSettings">>],
    [text |-> "impl <a class=\"trait\" href=\"https://doc.rust-lang.org/1.58.0/core/str/traits/trait.FromStr.html\" title=\"trait core::str::traits::FromStr\">FromStr</a> for <a class=\"enum\" href=\"clap/enum.ArgSettings.html\" title=\"enum clap::ArgSettings\">ArgSettings</a>",
     synthetic |-> FALSE,
     types |-> <<"clap::args::settings::ArgSettings">>],
    [text |-> "impl <a class=\"trait\" href=\"https://doc.rust-lang.org/1.58.0/core/str/traits/trait.FromStr.html\" title=\"trait core::str::traits::FromStr\">FromStr</a> for <a class=\"enum\" href=\"clap/enum.Shell.html\" title=\"enum clap::Shell\">Shell</a>",
     synthetic |-> FALSE,
     types |-> <<"clap::completions::shell::Shell">>]
  >>

implementors_colored ==
  <<
    [text |-> "impl <a class=\"trait\" href=\"https://doc.rust-lang.org/1.58.0/core/str/traits/trait.FromStr.html\" title=\"trait core::str::traits::FromStr\">FromStr</a> for <a class=\"enum\" href=\"colored/enum.Color.html\" title=\"enum colored::Color\">Color</a>",
     synthetic |-> FALSE,
     types |-> <<"colored::color::Color">>]
  >>

implementors_connection_string ==
  <<
    [text |-> "impl <a class=\"trait\" href=\"https://doc.rust-lang.org/1.58.0/core/str/traits/trait.FromStr.html\" title=\"trait core::str::traits::FromStr\">FromStr</a> for <a class=\"struct\" href=\"connection_string/struct.AdoNetString.html\" title=\"struct connection_string::AdoNetString\">AdoNetString</a>",
     synthetic |-> FALSE,
     types |-> <<"connection_string::ado::AdoNetString">>],
    [text |-> "impl <a class=\"trait\" href=\"https://doc.rust-lang.org/1.58.0/core/str/traits/trait.FromStr.html\" title=\"trait core::str::traits::FromStr\">FromStr</a> for <a class=\"struct\" href=\"connection_string/struct.JdbcString.html\" title=\"struct connection_string::JdbcString\">JdbcString</a>",
     synthetic |-> FALSE,
     types |-> <<"connection_string::jdbc::JdbcString">>]
  >>

implementors_cookie ==
  <<
    [text |-> "impl <a class=\"trait\" href=\"https://doc.rust-lang.org/1.58.0/core/str/traits/trait.FromStr.html\" title=\"trait core::str::traits::FromStr\">FromStr</a> for <a class=\"struct\" href=\"cookie/struct.Cookie.html\" title=\"struct cookie::Cookie\">Cookie</a>&lt;'static&gt;",
     synthetic |-> FALSE,
     types |-> <<"cookie::Cookie">>]
  >>

implementors_datamodel_connector ==
  <<
    [text |-> "impl <a class=\"trait\" href=\"https://doc.rust-lang.org/1.58.0/core/str/traits/trait.FromStr.html\" title=\"trait core::str::traits::FromStr\">FromStr</a> for <a class=\"enum\" href=\"datamodel_connector/capabilities/enum.ConnectorCapability.html\" title=\"enum datamodel_connector::capabilities::ConnectorCapability\">ConnectorCapability</a>",
     synthetic |-> FALSE,
     types |-> <<"datamodel_connector::capabilities::ConnectorCapability">>]
  >>

implementors_dml ==
  <<
    [text |-> "impl <a class=\"trait\" href=\"https://doc.rust-lang.org/1.58.0/core/str/traits/trait.FromStr.html\" title=\"trait core::str::traits::FromStr\">FromStr</a> for <a class=\"enum\" href=\"dml/scalars/enum.ScalarType.html\" title=\"enum dml::scalars::ScalarType\">ScalarType</a>",
     synthetic |-> FALSE,
     types |-> <<"dml::scalars::ScalarType">>]
  >>

implementors_graphql_parser ==
  <<
    [text |-> "impl <a class=\"trait\" href=\"https://doc.rust-lang.org/1.58.0/core/str/traits/trait.FromStr.html\" title=\"trait core::str::traits::FromStr\">FromStr</a> for <a class=\"enum\" href=\"graphql_parser/schema/enum.DirectiveLocation.html\" title=\"enum graphql_parser::schema::DirectiveLocation\">DirectiveLocation</a>",
     synthetic |-> FALSE,
     types |-> <<"graphql_parser::schema::ast::DirectiveLocation">>]
  >>

implementors_http ==
  <<
    [text |-> "impl <a class=\"trait\" href=\"https://doc.rust-lang.org/1.58.0/core/str/traits/trait.FromStr.html\" title=\"trait core::str::traits::FromStr\">FromStr</a> for <a class=\"struct\" href=\"http/header/struct.HeaderName.html\" title=\"struct http::header::HeaderName\">HeaderName</a>",
     synthetic |-> FALSE,
     types |-> <<"http::header::name::HeaderName">>],
    [text |-> "impl <a class=\"trait\" href=\"https://doc.rust-lang.org/1.58.0/core/str/traits/trait.FromStr.html\" title=\"trait core::str::traits::FromStr\">FromStr</a> for <a class=\"struct\" href=\"http/header/struct.HeaderValue.html\" title=\"struct http::header::HeaderValue\">HeaderValue</a>",
     synthetic |-> FALSE,
     types |-> <<"http::header::value::HeaderValue">>],
    [text |-> "impl <a class=\"trait\" href=\"https://doc.rust-lang.org/1.58.0/core/str/traits/trait.FromStr.html\" title=\"trait core::str::traits::FromStr\">FromStr</a> for <a class=\"struct\" href=\"http/method/struct.Method.html\" title=\"struct http::method::Method\">Method</a>",
     synthetic |-> FALSE,
     types |-> <<"http::method::Method">>],
    [text |-> "impl <a class=\"trait\" href=\"https://doc.rust-lang.org/1.58.0/core/str/traits/trait.FromStr.html\" title=\"trait core::str::traits::FromStr\">FromStr</a> for <a class=\"struct\" href=\"http/status/struct.StatusCode.html\" title=\"struct http::status::StatusCode\">StatusCode</a>",
     synthetic |-> FALSE,
     types |-> <<"http::status::StatusCode">>],
    [text |-> "impl <a class=\"trait\" href=\"https://doc.rust-lang.org/1.58.0/core/str/traits/trait.FromStr.html\" title=\"trait core::str::traits::FromStr\">FromStr</a> for <a class=\"struct\" href=\"http/uri/struct.Authority.html\" title=\"struct http::uri::Authority\">Authority</a>",
     synthetic |-> FALSE,
     types |-> <<"http::uri::authority::Authority">>],
    [text |-> "impl <a class=\"trait\" href=\"https://doc.rust-lang.org/1.58.0/core/str/traits/trait.FromStr.html\" title=\"trait core::str::traits::FromStr\">FromStr</a> for <a class=\"struct\" href=\"http/uri/struct.PathAndQuery.html\" title=\"struct http::uri::PathAndQuery\">PathAndQuery</a>",
     synthetic |-> FALSE,
     types |-> <<"http::uri::path::PathAndQuery">>],
    [text |-> "impl <a class=\"trait\" href=\"https://doc.rust-lang.org/1.58.0/core/str/traits/trait.FromStr.html\" title=\"trait core::str::traits::FromStr\">FromStr</a> for <a class=\"struct\" href=\"http/uri/struct.Scheme.html\" title=\"struct http::uri::Scheme\">Scheme</a>",
     synthetic |-> FALSE,
     types |-> <<"http::uri::scheme::Scheme">>],
    [text |-> "impl <a class=\"trait\" href=\"https://doc.rust-lang.org/1.58.0/core/str/traits/trait.FromStr.html\" title=\"trait core::str::traits::FromStr\">FromStr</a> for <a class=\"struct\" href=\"http/uri/struct.Uri.html\" title=\"struct http::uri::Uri\">Uri</a>",
     synthetic |-> FALSE,
     types |-> <<"http::uri::Uri">>]
  >>

implementors_http_types ==
  <<
    [text |-> "impl <a class=\"trait\" href=\"https://doc.rust-lang.org/1.58.0/core/str/traits/trait.FromStr.html\" title=\"trait core::str::traits::FromStr\">FromStr</a> for <a class=\"enum\" href=\"http_types/auth/enum.AuthenticationScheme.html\" title=\"enum http_types::auth::AuthenticationScheme\">AuthenticationScheme</a>",
     synthetic |-> FALSE,
     types |-> <<"http_types::auth::authentication_scheme::AuthenticationScheme">>],
    [text |-> "impl <a class=\"trait\" href=\"https://doc.rust-lang.org/1.58.0/core/str/traits/trait.FromStr.html\" title=\"trait core::str::traits::FromStr\">FromStr</a> for <a class=\"enum\" href=\"http_types/cache/enum.ClearDirective.html\" title=\"enum http_types::cache::ClearDirective\">ClearDirective</a>",
     synthetic |-> FALSE,
     types |-> <<"http_types::cache::clear_site_data::directive::ClearDirective">>],
    [text |-> "impl <a class=\"trait\" href=\"https://doc.rust-lang.org/1.58.0/core/str/traits/trait.FromStr.html\" title=\"trait core::str::traits::FromStr\">FromStr</a> for <a class=\"struct\" href=\"http_types/headers/struct.HeaderName.html\" title=\"struct http_types::headers::HeaderName\">HeaderName</a>",
     synthetic |-> FALSE,
     types |-> <<"http_types::headers::header_name::HeaderName">>],
    [text |-> "impl <a class=\"trait\" href=\"https://doc.rust-lang.org/1.58.0/core/str/traits/trait.FromStr.html\" title=\"trait core::str::traits::FromStr\">FromStr</a> for <a class=\"struct\" href=\"http_types/headers/struct.HeaderValue.html\" title=\"struct http_types::headers::HeaderValue\">HeaderValue</a>",
     synthetic |-> FALSE,
     types |-> <<"http_types::headers::header_value::HeaderValue">>],
    [text |-> "impl <a class=\"trait\" href=\"https://doc.rust-lang.org/1.58.0/core/str/traits/trait.FromStr.html\" title=\"trait core::str::traits::FromStr\">FromStr</a> for <a class=\"struct\" href=\"http_types/struct.Mime.html\" title=\"struct http_types::Mime\">Mime</a>",
     synthetic |-> FALSE,
     types |-> <<"http_types::mime::Mime">>],
    [text |-> "impl <a class=\"trait\" href=\"https://doc.rust-lang.org/1.58.0/core/str/traits/trait.FromStr.html\" title=\"trait core::str::traits::FromStr\">FromStr</a> for <a class=\"struct\" href=\"http_types/mime/struct.ParamName.html\" title=\"struct http_types::mime::ParamName\">ParamName</a>",
     synthetic |-> FALSE,
     types |-> <<"http_types::mime::ParamName">>],
    [text |-> "impl <a class=\"trait\" href=\"https://doc.rust-lang.org/1.58.0/core/str/traits/trait.FromStr.html\" title=\"trait core::str::traits::FromStr\">FromStr</a> for <a class=\"enum\" href=\"http_types/enum.Method.html\" title=\"enum http_types::Method\">Method</a>",
     synthetic |-> FALSE,
     types |-> <<"http_types::method::Method">>]
  >>

implementors_httpdate ==
  <<
    [text |-> "impl <a class=\"trait\" href=\"https://doc.rust-lang.org/1.58.0/core/str/traits/trait.FromStr.html\" title=\"trait core::str::traits::FromStr\">FromStr</a> for <a class=\"struct\" href=\"httpdate/struct.HttpDate.html\" title=\"struct httpdate::HttpDate\">HttpDate</a>",
     synthetic |-> FALSE,
     types |-> <<"httpdate::date::HttpDate">>]
  >>

implementors_hyper ==
  <<
    [text |-> "impl <a class=\"trait\" href=\"https://doc.rust-lang.org/1.58.0/core/str/traits/trait.FromStr.html\" title=\"trait core::str::traits::FromStr\">FromStr</a> for <a class=\"struct\" href=\"hyper/client/connect/dns/struct.Name.html\" title=\"struct hyper::client::connect::dns::Name\">Name</a>",
     synthetic |-> FALSE,
     types |-> <<"hyper::client::connect::dns::Name">>]
  >>

implementors_ipnet ==
  <<
    [text |-> "impl <a class=\"trait\" href=\"https://doc.rust-lang.org/1.58.0/core/str/traits/trait.FromStr.html\" title=\"trait core::str::traits::FromStr\">FromStr</a> for <a class=\"enum\" href=\"ipnet/enum.IpNet.html\" title=\"enum ipnet::IpNet\">IpNet</a>",
     synthetic |-> FALSE,
     types |-> <<"ipnet::ipnet::IpNet">>],
    [text |-> "impl <a class=\"trait\" href=\"https://doc.rust-lang.org/1.58.0/core/str/traits/trait.FromStr.html\" title=\"trait core::str::traits::FromStr\">FromStr</a> for <a class=\"struct\" href=\"ipnet/struct.Ipv4Net.html\" title=\"struct ipnet::Ipv4Net\">Ipv4Net</a>",
     synthetic |-> FALSE,
     types |-> <<"ipnet::ipnet::Ipv4Net">>],
    [text |-> "impl <a class=\"trait\" href=\"https://doc.rust-lang.org/1.58.0/core/str/traits/trait.FromStr.html\" title=\"trait core::str::traits::FromStr\">FromStr</a> for <a class=\"struct\" href=\"ipnet/struct.Ipv6Net.html\" title=\"struct ipnet::Ipv6Net\">Ipv6Net</a>",
     synthetic |-> FALSE,
     types |-> <<"ipnet::ipnet::Ipv6Net">>]
  >>

implementors_log ==
  <<
    [text |-> "impl <a class=\"trait\" href=\"https://doc.rust-lang.org/1.58.0/core/str/traits/trait.FromStr.html\" title=\"trait core::str::traits::FromStr\">FromStr</a> for <a class=\"enum\" href=\"log/enum.Level.html\" title=\"enum log::Level\">Level</a>",
     synthetic |-> FALSE,
     types |-> <<"log::Level">>],
    [text |-> "impl <a class=\"trait\" href=\"https://doc.rust-lang.org/1.58.0/core/str/traits/trait.FromStr.html\" title=\"trait core::str::traits::FromStr\">FromStr</a> for <a class=\"enum\" href=\"log/enum.LevelFilter.html\" title=\"enum log::LevelFilter\">LevelFilter</a>",
     synthetic |-> FALSE,
     types |-> <<"log::LevelFilter">>]
  >>

implementors_matchers ==
  <<
    [text |-> "impl <a class=\"trait\" href=\"https://doc.rust-lang.org/1.58.0/core/str/traits/trait.FromStr.html\" title=\"trait core::str::traits::FromStr\">FromStr</a> for <a class=\"struct\" href=\"matchers/struct.Pattern.html\" title=\"struct matchers::Pattern\">Pattern</a>",
     synthetic |-> FALSE,
     types |-> <<"matchers::Pattern">>]
  >>

implementors_mongodb ==
  <<
    [text |-> "impl <a class=\"trait\" href=\"https://doc.rust-lang.org/1.58.0/core/str/traits/trait.FromStr.html\" title=\"trait core::str::traits::FromStr\">FromStr</a> for <a class=\"enum\" href=\"mongodb/options/enum.AuthMechanism.html\" title=\"enum mongodb::options::AuthMechanism\">AuthMechanism</a>",
     synthetic |-> FALSE,
     types |-> <<"mongodb::client::auth::AuthMechanism">>],
    [text |-> "impl <a class=\"trait\" href=\"https://doc.rust-lang.org/1.58.0/core/str/traits/trait.FromStr.html\" title=\"trait core::str::traits::FromStr\">FromStr</a> for <a class=\"enum\" href=\"mongodb/options/enum.ServerAddress.html\" title=\"enum mongodb::options::ServerAddress\">ServerAddress</a>",
     synthetic |-> FALSE,
     types |-> <<"mongodb::client::options::ServerAddress">>],
    [text |-> "impl <a class=\"trait\" href=\"https://doc.rust-lang.org/1.58.0/core/str/traits/trait.FromStr.html\" title=\"trait core::str::traits::FromStr\">FromStr</a> for <a class=\"enum\" href=\"mongodb/options/enum.ServerApiVersion.html\" title=\"enum mongodb::options::ServerApiVersion\">ServerApiVersion</a>",
     synthetic |-> FALSE,
     types |-> <<"mongodb::client::options::ServerApiVersion">>],
    [text |-> "impl <a class=\"trait\" href=\"https://doc.rust-lang.org/1.58.0/core/str/traits/trait.FromStr.html\" title=\"trait core::str::traits::FromStr\">FromStr</a> for <a class=\"enum\" href=\"mongodb/options/enum.CollationCaseFirst.html\" title=\"enum mongodb::options::CollationCaseFirst\">CollationCaseFirst</a>",
     synthetic |-> FALSE,
     types |-> <<"mongodb::collation::CollationCaseFirst">>],
    [text |-> "impl <a class=\"trait\" href=\"https://doc.rust-lang.org/1.58.0/core/str/traits/trait.FromStr.html\" title=\"trait core::str::traits::FromStr\">FromStr</a> for <a class=\"enum\" href=\"mongodb/options/enum.CollationAlternate.html\" title=\"enum mongodb::options::CollationAlternate\">CollationAlternate</a>",
     synthetic |-> FALSE,
     types |-> <<"mongodb::collation::CollationAlternate">>],
    [text |-> "impl <a class=\"trait\" href=\"https://doc.rust-lang.org/1.58.0/core/str/traits/trait.FromStr.html\" title=\"trait core::str::traits::FromStr\">FromStr</a> for <a class=\"enum\" href=\"mongodb/options/enum.CollationMaxVariable.html\" title=\"enum mongodb::options::CollationMaxVariable\">CollationMaxVariable</a>",
     synthetic |-> FALSE,
     types |-> <<"mongodb::collation::CollationMaxVariable">>]
  >>

implementors_mysql_async ==
  <<
    [text |-> "impl <a class=\"trait\" href=\"https://doc.rust-lang.org/1.58.0/core/str/traits/trait.FromStr.html\" title=\"trait core::str::traits::FromStr\">FromStr</a> for <a class=\"struct\" href=\"mysql_async/struct.Opts.html\" title=\"struct mysql_async::Opts\">Opts</a>",
     synthetic |-> FALSE,
     types |-> <<"mysql_async::opts::Opts">>]
  >>

implementors_num_bigint ==
  <<
    [text |-> "impl <a class=\"trait\" href=\"https://doc.rust-lang.org/1.58.0/core/str/traits/trait.FromStr.html\" title=\"trait core::str::traits::FromStr\">FromStr</a> for <a class=\"struct\" href=\"num_bigint/struct.BigInt.html\" title=\"struct num_bigint::BigInt\">BigInt</a>",
     synthetic |-> FALSE,
     types |-> <<"num_bigint::bigint::BigInt">>],
    [text |-> "impl <a class=\"trait\" href=\"https://doc.rust-lang.org/1.58.0/core/str/traits/trait.FromStr.html\" title=\"trait core::str::traits::FromStr\">FromStr</a> for <a class=\"struct\" href=\"num_bigint/struct.BigUint.html\" title=\"struct num_bigint::BigUint\">BigUint</a>",
     synthetic |-> FALSE,
     types |-> <<"num_bigint::biguint::BigUint">>]
  >>

implementors_opentelemetry ==
  <<
    [text |-> "impl <a class=\"trait\" href=\"https://doc.rust-lang.org/1.58.0/core/str/traits/trait.FromStr.html\" title=\"trait core::str::traits::FromStr\">FromStr</a> for <a class=\"struct\" href=\"opentelemetry/trace/struct.TraceState.html\" title=\"struct opentelemetry::trace::TraceState\">TraceState</a>",
     synthetic |-> FALSE,
     types |-> <<"opentelemetry::trace::span_context::TraceState">>]
  >>

implementors_postgres_types ==
  <<
    [text |-> "impl <a class=\"trait\" href=\"https://doc.rust-lang.org/1.58.0/core/str/traits/trait.FromStr.html\" title=\"trait core::str::traits::FromStr\">FromStr</a> for <a class=\"struct\" href=\"postgres_types/struct.PgLsn.html\" title=\"struct postgres_types::PgLsn\">PgLsn</a>",
     synthetic |-> FALSE,
     types |-> <<"postgres_types::pg_lsn::PgLsn">>]
  >>

implementors_proc_macro2 ==
  <<
    [text |-> "impl <a class=\"trait\" href=\"https://doc.rust-lang.org/1.58.0/core/str/traits/trait.FromStr.html\" title=\"trait core::str::traits::FromStr\">FromStr</a> for <a class=\"struct\" href=\"proc_macro2/struct.TokenStream.html\" title=\"struct proc_macro2::TokenStream\">TokenStream</a>",
     synthetic |-> FALSE,
     types |-> <<"proc_macro2::TokenStream">>],
    [text |-> "impl <a class=\"trait\" href=\"https://doc.rust-lang.org/1.58.0/core/str/traits/trait.FromStr.html\" title=\"trait core::str::traits::FromStr\">FromStr</a> for <a class=\"struct\" href=\"proc_macro2/struct.Literal.html\" title=\"struct proc_macro2::Literal\">Literal</a>",
     synthetic |-> FALSE,
     types |-> <<"proc_macro2::Literal">>]
  >>

implementors_quaint ==
  <<
    [text |-> "impl <a class=\"trait\" href=\"https://doc.rust-lang.org/1.58.0/core/str/traits/trait.FromStr.html\" title=\"trait core::str::traits::FromStr\">FromStr</a> for <a class=\"enum\" href=\"quaint/connector/enum.EncryptMode.html\" title=\"enum quaint::connector::EncryptMode\">EncryptMode</a>",
     synthetic |-> FALSE,
     types |-> <<"quaint::connector::mssql::EncryptMode">>],
    [text |-> "impl <a class=\"trait\" href=\"https://doc.rust-lang.org/1.58.0/core/str/traits/trait.FromStr.html\" title=\"trait core::str::traits::FromStr\">FromStr</a> for <a class=\"enum\" href=\"quaint/connector/enum.IsolationLevel.html\" title=\"enum quaint::connector::IsolationLevel\">IsolationLevel</a>",
     synthetic |-> FALSE,
     types |-> <<"quaint::connector::mssql::IsolationLevel">>]
  >>

implementors_query_tests_setup ==
  <<
    [text |-> "impl <a class=\"trait\" href=\"https://doc.rust-lang.org/1.58.0/core/str/traits/trait.FromStr.html\" title=\"trait core::str::traits::FromStr\">FromStr</a> for <a class=\"enum\" href=\"query_tests_setup/enum.VitessVersion.html\" title=\"enum query_tests_setup::VitessVersion\">VitessVersion</a>",
     synthetic |-> FALSE,
     types |-> <<"query_tests_setup::connector_tag::vitess::VitessVersion">>],
    [text |-> "impl <a class=\"trait\" href=\"https://doc.rust-lang.org/1.58.0/core/str/traits/trait.FromStr.html\" title=\"trait core::str::traits::FromStr\">FromStr</a> for <a class=\"struct\" href=\"query_tests_setup/struct.DatamodelWithParams.html\" title=\"struct query_tests_setup::DatamodelWithParams\">DatamodelWithParams</a>",
     synthetic |-> FALSE,
     types |-> <<"query_tests_setup::schema_gen::schema_with_relation::DatamodelWithParams">>]
  >>

implementors_regex ==
  <<
    [text |-> "impl <a class=\"trait\" href=\"https://doc.rust-lang.org/1.58.0/core/str/traits/trait.FromStr.html\" title=\"trait core::str::traits::FromStr\">FromStr</a> for <a class=\"struct\" href=\"regex/bytes/struct.Regex.html\" title=\"struct regex::bytes::Regex\">Regex</a>",
     synthetic |-> FALSE,
     types |-> <<"regex::re_bytes::Regex">>],
    [text |-> "impl <a class=\"trait\" href=\"https://doc.rust-lang.org/1.58.0/core/str/traits/trait.FromStr.html\" title=\"trait core::str::traits::FromStr\">FromStr</a> for <a class=\"struct\" href=\"regex/struct.Regex.html\" title=\"struct regex::Regex\">Regex</a>",
     synthetic |-> FALSE,
     types |-> <<"regex::re_unicode::Regex">>]
  >>

implementors_resolv_conf ==
  <<
    [text |-> "impl <a class=\"trait\" href=\"https://doc.rust-lang.org/1.58.0/core/str/traits/trait.FromStr.html\" title=\"trait core::str::traits::FromStr\">FromStr</a> for <a class=\"enum\" href=\"resolv_conf/enum.ScopedIp.html\" title=\"enum resolv_conf::ScopedIp\">ScopedIp</a>",
     synthetic |-> FALSE,
     types |-> <<"resolv_conf::ip::ScopedIp">>]
  >>

implementors_serde_json ==
  <<
    [text |-> "impl <a class=\"trait\" href=\"https://doc.rust-lang.org/1.58.0/core/str/traits/trait.FromStr.html\" title=\"trait core::str::traits::FromStr\">FromStr</a> for <a class=\"struct\" href=\"serde_json/value/struct.Number.html\" title=\"struct serde_json::value::Number\">Number</a>",
     synthetic |-> FALSE,
     types |-> <<"serde_json::number::Number">>],
    [text |-> "impl <a class=\"trait\" href=\"https://doc.rust-lang.org/1.58.0/core/str/traits/trait.FromStr.html\" title=\"trait core::str::traits::FromStr\">FromStr</a> for <a class=\"enum\" href=\"serde_json/enum.Value.html\" title=\"enum serde_json::Value\">Value</a>",
     synthetic |-> FALSE,
     types |-> <<"serde_json::value::Value">>]
  >>

\* (Variant: the generator marks a record as synthetic.)
implementors_sha1_synthetic ==
  <<
    [text |-> "impl <a class=\"trait\" href=\"https://doc.rust-lang.org/1.58.0/core/str/traits/trait.FromStr.html\" title=\"trait core::str::traits::FromStr\">FromStr</a> for <a class=\"struct\" href=\"sha1/struct.Digest.html\" title=\"struct sha1::Digest\">Digest</a>",
     synthetic |-> TRUE,
     types |-> <<"sha1::Digest">>]
  >>

implementors_sha1 ==
  <<
    [text |-> "impl <a class=\"trait\" href=\"https://doc.rust-lang.org/1.58.0/core/str/traits/trait.FromStr.html\" title=\"trait core::str::traits::FromStr\">FromStr</a> for <a class=\"struct\" href=\"sha1/struct.Digest.html\" title=\"struct sha1::Digest\">Digest</a>",
     synthetic |-> FALSE,
     types |-> <<"sha1::Digest">>]
  >>

implementors_test_cli ==
  <<
    [text |-> "impl <a class=\"trait\" href=\"https://doc.rust-lang.org/1.58.0/core/str/traits/trait.FromStr.html\" title=\"trait core::str::traits::FromStr\">FromStr</a> for <a class=\"enum\" href=\"test_cli/enum.DiffOutputType.html\" title=\"enum test_cli::DiffOutputType\">DiffOutputType</a>",
     synthetic |-> FALSE,
     types |-> <<"test_cli::DiffOutputType">>]
  >>

implementors_tokio_postgres ==
  <<
    [text |-> "impl <a class=\"trait\" href=\"https://doc.rust-lang.org/1.58.0/core/str/traits/trait.FromStr.html\" title=\"trait core::str::traits::FromStr\">FromStr</a> for <a class=\"struct\" href=\"tokio_postgres/config/struct.Config.html\" title=\"struct tokio_postgres::config::Config\">Config</a>",
     synthetic |-> FALSE,
     types |-> <<"tokio_postgres::config::Config">>]
  >>

implementors_toml ==
  <<
    [text |-> "impl <a class=\"trait\" href=\"https://doc.rust-lang.org/1.58.0/core/str/traits/trait.FromStr.html\" title=\"trait core::str::traits::FromStr\">FromStr</a> for <a class=\"enum\" href=\"toml/value/enum.Value.html\" title=\"enum toml::value::Value\">Value</a>",
     synthetic |-> FALSE,
     types |-> <<"toml::value::Value">>],
    [text |-> "impl <a class=\"trait\" href=\"https://doc.rust-lang.org/1.58.0/core/str/traits/trait.FromStr.html\" title=\"trait core::str::traits::FromStr\">FromStr</a> for <a class=\"struct\" href=\"toml/value/struct.Datetime.html\" title=\"struct toml::value::Datetime\">Datetime</a>",
     synthetic |-> FALSE,
     types |-> <<"toml::datetime::Datetime">>]
  >>

implementors_tonic ==
  <<
    [text |-> "impl&lt;VE:&nbsp;ValueEncoding&gt; <a class=\"trait\" href=\"https://doc.rust-lang.org/1.58.0/core/str/traits/trait.FromStr.html\" title=\"trait core::str::traits::FromStr\">FromStr</a> for <a class=\"struct\" href=\"tonic/metadata/struct.MetadataKey.html\" title=\"struct tonic::metadata::MetadataKey\">MetadataKey</a>&lt;VE&gt;",
     synthetic |-> FALSE,
     types |-> <<"tonic::metadata::key::MetadataKey">>],
    [text |-> "impl <a class=\"trait\" href=\"https://doc.rust-lang.org/1.58.0/core/str/traits/trait.FromStr.html\" title=\"trait core::str::traits::FromStr\">FromStr</a> for <a class=\"struct\" href=\"tonic/transport/channel/struct.Endpoint.html\" title=\"struct tonic::transport::channel::Endpoint\">Endpoint</a>",
     synthetic |-> FALSE,
     types |-> <<"tonic::transport::channel::endpoint::Endpoint">>]
  >>

implementors_tracing_core ==
  <<
    [text |-> "impl <a class=\"trait\" href=\"https://doc.rust-lang.org/1.58.0/core/str/traits/trait.FromStr.html\" title=\"trait core::str::traits::FromStr\">FromStr</a> for <a class=\"struct\" href=\"tracing_core/struct.Level.html\" title=\"struct tracing_core::Level\">Level</a>",
     synthetic |-> FALSE,
     types |-> <<"tracing_core::metadata::Level">>],
    [text |-> "impl <a class=\"trait\" href=\"https://doc.rust-lang.org/1.58.0/core/str/traits/trait.FromStr.html\" title=\"trait core::str::traits::FromStr\">FromStr</a> for <a class=\"struct\" href=\"tracing_core/struct.LevelFilter.html\" title=\"struct tracing_core::LevelFilter\">LevelFilter</a>",
     synthetic |-> FALSE,
     types |-> <<"tracing_core::metadata::LevelFilter">>]
  >>

implementors_tracing_subscriber ==
  <<
    [text |-> "impl <a class=\"trait\" href=\"https://doc.rust-lang.org/1.58.0/core/str/traits/trait.FromStr.html\" title=\"trait core::str::traits::FromStr\">FromStr</a> for <a class=\"struct\" href=\"tracing_subscriber/filter/struct.Directive.html\" title=\"struct tracing_subscriber::filter::Directive\">Directive</a>",
     synthetic |-> FALSE,
     types |-> <<"tracing_subscriber::filter::env::directive::Directive">>],
    [text |-> "impl <a class=\"trait\" href=\"https://doc.rust-lang.org/1.58.0/core/str/traits/trait.FromStr.html\" title=\"trait core::str::traits::FromStr\">FromStr</a> for <a class=\"struct\" href=\"tracing_subscriber/filter/struct.EnvFilter.html\" title=\"struct tracing_subscriber::filter::EnvFilter\">EnvFilter</a>",
     synthetic |-> FALSE,
     types |-> <<"tracing_subscriber::filter::env::EnvFilter">>],
    [text |-> "impl <a class=\"trait\" href=\"https://doc.rust-lang.org/1.58.0/core/str/traits/trait.FromStr.html\" title=\"trait core::str::traits::FromStr\">FromStr</a> for <a class=\"struct\" href=\"tracing_subscriber/filter/targets/struct.Targets.html\" title=\"struct tracing_subscriber::filter::targets::Targets\">Targets</a>",
     synthetic |-> FALSE,
     types |-> <<"tracing_subscriber::filter::targets::Targets">>]
  >>

implementors_trust_dns_proto ==
  <<
    [text |-> "impl <a class=\"trait\" href=\"https://doc.rust-lang.org/1.58.0/core/str/traits/trait.FromStr.html\" title=\"trait core::str::traits::FromStr\">FromStr</a> for <a class=\"enum\" href=\"trust_dns_proto/rr/dns_class/enum.DNSClass.html\" title=\"enum trust_dns_proto::rr::dns_class::DNSClass\">DNSClass</a>",
     synthetic |-> FALSE,
     types |-> <<"trust_dns_proto::rr::dns_class::DNSClass">>],
    [text |-> "impl <a class=\"trait\" href=\"https://doc.rust-lang.org/1.58.0/core/str/traits/trait.FromStr.html\" title=\"trait core::str::traits::FromStr\">FromStr</a> for <a class=\"struct\" href=\"trust_dns_proto/rr/domain/struct.Name.html\" title=\"struct trust_dns_proto::rr::domain::Name\">Name</a>",
     synthetic |-> FALSE,
     types |-> <<"trust_dns_proto::rr::domain::name::Name">>],
    [text |-> "impl <a class=\"trait\" href=\"https://doc.rust-lang.org/1.58.0/core/str/traits/trait.FromStr.html\" title=\"trait core::str::traits::FromStr\">FromStr</a> for <a class=\"enum\" href=\"trust_dns_proto/rr/rdata/svcb/enum.SvcParamKey.html\" title=\"enum trust_dns_proto::rr::rdata::svcb::SvcParamKey\">SvcParamKey</a>",
     synthetic |-> FALSE,
     types |-> <<"trust_dns_proto::rr::rdata::svcb::SvcParamKey">>],
    [text |-> "impl <a class=\"trait\" href=\"https://doc.rust-lang.org/1.58.0/core/str/traits/trait.FromStr.html\" title=\"trait core::str::traits::FromStr\">FromStr</a> for <a class=\"enum\" href=\"trust_dns_proto/rr/record_type/enum.RecordType.html\" title=\"enum trust_dns_proto::rr::record_type::RecordType\">RecordType</a>",
     synthetic |-> FALSE,
     types |-> <<"trust_dns_proto::rr::record_type::RecordType">>]
  >>

\* (Variant: the generator emits a record without its type path.)
implementors_url_untyped ==
  <<
    [text |-> "impl <a class=\"trait\" href=\"https://doc.rust-lang.org/1.58.0/core/str/traits/trait.FromStr.html\" title=\"trait core::str::traits::FromStr\">FromStr</a> for <a class=\"struct\" href=\"url/struct.Url.html\" title=\"struct url::Url\">Url</a>",
     synthetic |-> FALSE,
     types |-> <<>>]
  >>

implementors_url ==
  <<
    [text |-> "impl <a class=\"trait\" href=\"https://doc.rust-lang.org/1.58.0/core/str/traits/trait.FromStr.html\" title=\"trait core::str::traits::FromStr\">FromStr</a> for <a class=\"struct\" href=\"url/struct.Url.html\" title=\"struct url::Url\">Url</a>",
     synthetic |-> FALSE,
     types |-> <<"url::Url">>]
  >>

\* (Variant: the generator emits a key with no record.)
implementors_uuid_empty == <<>>

implementors_uuid ==
  <<
    [text |-> "impl <a class=\"trait\" href=\"https://doc.rust-lang.org/1.58.0/core/str/traits/trait.FromStr.html\" title=\"trait core::str::traits::FromStr\">FromStr</a> for <a class=\"struct\" href=\"uuid/struct.Uuid.html\" title=\"struct uuid::Uuid\">Uuid</a>",
     synthetic |-> FALSE,
     types |-> <<"uuid::Uuid">>]
  >>

(***************************************************************************)
(* The assignment statement on each source line: the key it assigns and   *)
(* the array literal it assigns to it.                                    *)
(***************************************************************************)
\* (Variant: the last statement assigns a key that line 41 assigned.)
StatementsDuplicateKey ==
  (2 :> [key |-> "arrayvec", value |-> implementors_arrayvec]) @@
  (3 :> [key |-> "ascii", value |-> implementors_ascii]) @@
  (4 :> [key |-> "async_std", value |-> implementors_async_std]) @@
  (5 :> [key |-> "bigdecimal", value |-> implementors_bigdecimal]) @@
  (6 :> [key |-> "bson", value |-> implementors_bson]) @@
  (7 :> [key |-> "chrono", value |-> implementors_chrono]) @@
  (8 :> [key |-> "clap", value |-> implementors_clap]) @@
  (9 :> [key |-> "colored", value |-> implementors_colored]) @@
  (10 :> [key |-> "connection_string", value |-> implementors_connection_string]) @@
  (11 :> [key |-> "cookie", value |-> implementors_cookie]) @@
  (12 :> [key |-> "datamodel_connector", value |-> implementors_datamodel_connector]) @@
  (13 :> [key |-> "dml", value |-> implementors_dml]) @@
  (14 :> [key |-> "graphql_parser", value |-> implementors_graphql_parser]) @@
  (15 :> [key |-> "http", value |-> implementors_http]) @@
  (16 :> [key |-> "http_types", value |-> implementors_http_types]) @@
  (17 :> [key |-> "httpdate", value |-> implementors_httpdate]) @@
  (18 :> [key |-> "hyper", value |-> implementors_hyper]) @@
  (19 :> [key |-> "ipnet", value |-> implementors_ipnet]) @@
  (20 :> [key |-> "log", value |-> implementors_log]) @@
  (21 :> [key |-> "matchers", value |-> implementors_matchers]) @@
  (22 :> [key |-> "mongodb", value |-> implementors_mongodb]) @@
  (23 :> [key |-> "mysql_async", value |-> implementors_mysql_async]) @@
  (24 :> [key |-> "num_bigint", value |-> implementors_num_bigint]) @@
  (25 :> [key |-> "opentelemetry", value |-> implementors_opentelemetry]) @@
  (26 :> [key |-> "postgres_types", value |-> implementors_postgres_types]) @@
  (27 :> [key |-> "proc_macro2", value |-> implementors_proc_macro2]) @@
  (28 :> [key |-> "quaint", value |-> implementors_quaint]) @@
  (29 :> [key |-> "query_tests_setup", value |-> implementors_query_tests_setup]) @@
  (30 :> [key |-> "regex", value |-> implementors_regex]) @@
  (31 :> [key |-> "resolv_conf", value |-> implementors_resolv_conf]) @@
  (32 :> [key |-> "serde_json", value |-> implementors_serde_json]) @@
  (33 :> [key |-> "sha1", value |-> implementors_sha1]) @@
  (34 :> [key |-> "test_cli", value |-> implementors_test_cli]) @@
  (35 :> [key |-> "tokio_postgres", value |-> implementors_tokio_postgres]) @@
  (36 :> [key |-> "toml", value |-> implementors_toml]) @@
  (37 :> [key |-> "tonic", value |-> implementors_tonic]) @@
  (38 :> [key |-> "tracing_core", value |-> implementors_tracing_core]) @@
  (39 :> [key |-> "tracing_subscriber", value |-> implementors_tracing_subscriber]) @@
  (40 :> [key |-> "trust_dns_proto", value |-> implementors_trust_dns_proto]) @@
  (41 :> [key |-> "url", value |-> implementors_url]) @@
  (42 :> [key |-> "url", value |-> implementors_uuid])

Statements ==
  (2 :> [key |-> "arrayvec", value |-> implementors_arrayvec]) @@
  (3 :> [key |-> "ascii", value |-> implementors_ascii]) @@
  (4 :> [key |-> "async_std", value |-> implementors_async_std]) @@
  (5 :> [key |-> "bigdecimal", value |-> implementors_bigdecimal]) @@
  (6 :> [key |-> "bson", value |-> implementors_bson]) @@
  (7 :> [key |-> "chrono", value |-> implementors_chrono]) @@
  (8 :> [key |-> "clap", value |-> implementors_clap]) @@
  (9 :> [key |-> "colored", value |-> implementors_colored]) @@
  (10 :> [key |-> "connection_string", value |-> implementors_connection_string]) @@
  (11 :> [key |-> "cookie", value |-> implementors_cookie]) @@
  (12 :> [key |-> "datamodel_connector", value |-> implementors_datamodel_connector]) @@
  (13 :> [key |-> "dml", value |-> implementors_dml]) @@
  (14 :> [key |-> "graphql_parser", value |-> implementors_graphql_parser]) @@
  (15 :> [key |-> "http", value |-> implementors_http]) @@
  (16 :> [key |-> "http_types", value |-> implementors_http_types]) @@
  (17 :> [key |-> "httpdate", value |-> implementors_httpdate]) @@
  (18 :> [key |-> "hyper", value |-> implementors_hyper]) @@
  (19 :> [key |-> "ipnet", value |-> implementors_ipnet]) @@
  (20 :> [key |-> "log", value |-> implementors_log]) @@
  (21 :> [key |-> "matchers", value |-> implementors_matchers]) @@
  (22 :> [key |-> "mongodb", value |-> implementors_mongodb]) @@
  (23 :> [key |-> "mysql_async", value |-> implementors_mysql_async]) @@
  (24 :> [key |-> "num_bigint", value |-> implementors_num_bigint]) @@
  (25 :> [key |-> "opentelemetry", value |-> implementors_opentelemetry]) @@
  (26 :> [key |-> "postgres_types", value |-> implementors_postgres_types]) @@
  (27 :> [key |-> "proc_macro2", value |-> implementors_proc_macro2]) @@
  (28 :> [key |-> "quaint", value |-> implementors_quaint]) @@
  (29 :> [key |-> "query_tests_setup", value |-> implementors_query_tests_setup]) @@
  (30 :> [key |-> "regex", value |-> implementors_regex]) @@
  (31 :> [key |-> "resolv_conf", value |-> implementors_resolv_conf]) @@
  (32 :> [key |-> "serde_json", value |-> implementors_serde_json]) @@
  (33 :> [key |-> "sha1", value |-> implementors_sha1]) @@
  (34 :> [key |-> "test_cli", value |-> implementors_test_cli]) @@
  (35 :> [key |-> "tokio_postgres", value |-> implementors_tokio_postgres]) @@
  (36 :> [key |-> "toml", value |-> implementors_toml]) @@
  (37 :> [key |-> "tonic", value |-> implementors_tonic]) @@
  (38 :> [key |-> "tracing_core", value |-> implementors_tracing_core]) @@
  (39 :> [key |-> "tracing_subscriber", value |-> implementors_tracing_subscriber]) @@
  (40 :> [key |-> "trust_dns_proto", value |-> implementors_trust_dns_proto]) @@
  (41 :> [key |-> "url", value |-> implementors_url]) @@
  (42 :> [key |-> "uuid", value |-> implementors_uuid])

(***************************************************************************)
(* Bounds of the model.                                                    *)
(***************************************************************************)
\* How many times the script is evaluated on one page.
MaxLoads == 2

(***************************************************************************)
(* JavaScript values, as far as line 43 tells them apart.                  *)
(***************************************************************************)
Undefined == [type |-> "undefined"]
Null == [type |-> "null"]
Number(n) == [type |-> "number", value |-> n]
\* A host function; `throws` says whether its body raises when it is called.
Function(throws) == [type |-> "function", throws |-> throws]
\* An ordinary (not callable) object with the given properties.
Object(props) == [type |-> "object", props |-> props]
\* {}
EmptyProps == [k \in {} |-> <<>>]

\* ToBoolean, as applied by `if (window.register_implementors)`.
\* (Variant: the test `!== undefined`, which lets null through.)
TruthyUndefinedOnly(v) == v.type # "undefined"
\* (Variant: the test `typeof ... === "function"`.)
TruthyFunctionOnly(v) == v.type = "function"
Truthy(v) ==
  CASE v.type \in {"undefined", "null"} -> FALSE
    [] v.type = "number" -> v.value # 0
    [] OTHER -> TRUE

\* IsCallable, as applied by the call `window.register_implementors(...)`.
IsCallable(v) == v.type = "function"

\* obj[key]: an absent property reads as undefined.
Get(obj, key) == IF key \in DOMAIN obj THEN obj[key] ELSE Undefined

\* obj[key] = value: the property is created or replaced, the others kept.
Put(obj, key, value) ==
  [k \in DOMAIN obj \cup {key} |-> IF k = key THEN value ELSE obj[k]]

\* delete obj[key]
Delete(obj, key) == [k \in DOMAIN obj \ {key} |-> obj[k]]

(***************************************************************************)
(* The table that lines 2-42 denote: every assigned key with the literal   *)
(* of the last statement that assigns it.                                  *)
(***************************************************************************)
AssignLines == DOMAIN Statements
Keys == {Statements[l].key : l \in AssignLines}
LastLineOf(key) ==
  CHOOSE l \in AssignLines :
    /\ Statements[l].key = key
    /\ \A m \in AssignLines : Statements[m].key = key => m <= l
Registry == [k \in Keys |-> Statements[LastLineOf(k)].value]

(***************************************************************************)
(* Values the host page may hold in the two slots.                         *)
(***************************************************************************)
\* What window.register_implementors may hold: nothing, null, 0, the page's
\* function, a function whose body raises, or an object that is no function.
CallbackValues ==
  {Undefined, Null, Number(0), Function(FALSE), Function(TRUE),
   Object(EmptyProps)}
\* A table left in window.pending_implementors by another implementors file.
StaleRegistry ==
  [k \in {"alpha"} |->
     <<[text |-> "impl Trait for Alpha", synthetic |-> FALSE,
        types |-> <<"alpha::Alpha">>]>>]
PendingValues == {Undefined, Object(StaleRegistry)}

\* A global object holding the given slot values; undefined means absent.
Globals(cb, pend) ==
  [k \in {s \in {"register_implementors", "pending_implementors"} :
            (IF s = "register_implementors" THEN cb ELSE pend) # Undefined} |->
     IF k = "register_implementors" THEN cb ELSE pend]

(***************************************************************************)
(* State.                                                                  *)
(***************************************************************************)
VARIABLES
  window,        \* the global object: property name -> value
  implementors,  \* the function's local variable `implementors`
  pc,            \* where the script is: "idle" when it is not running
  line,          \* the source line about to be executed (0 when idle)
  loads,         \* how many times the script has been started
  completion,    \* how the last run ended: "normal" or the exception raised
  effects        \* record of what the script did to the page, in order

vars == <<window, implementors, pc, line, loads, completion, effects>>

\* One entry of `effects`: the run, the operation ("get", "call", "set"),
\* the global property it acts on and the value read, passed or written.
Effect(op, prop, value) ==
  [load |-> loads, op |-> op, prop |-> prop, value |-> value]

Init ==
  /\ \E cb \in CallbackValues, pend \in PendingValues :
       window = Globals(cb, pend)
  /\ implementors = Undefined
  /\ pc = "idle"
  /\ line = 0
  /\ loads = 0
  /\ completion = "none"
  /\ effects = <<>>

(***************************************************************************)
(* The script.                                                             *)
(***************************************************************************)
\* The function body runs in one piece, from the call of the function
\* expression to its return: the script yields to nothing in between.
\* (Variant: the delivery is deferred, so the page may act after the test.)
RunningUntilTest == pc \notin {"idle", "call", "else"}
Running == pc # "idle"

\* (Variant: the script leaves a retry behind; once a function is installed
\* the table a finished run stored is passed to it on that run's behalf.)
LoadOrRetry ==
  /\ ~Running
  /\ \/ /\ loads < MaxLoads
        /\ loads' = loads + 1
        /\ pc' = "var"
        /\ line' = 1
        /\ completion' = "running"
        /\ UNCHANGED <<window, implementors, effects>>
     \/ /\ loads >= 1
        /\ Get(window, "pending_implementors").type = "object"
        /\ Get(window, "register_implementors").type = "function"
        /\ \A i \in 1..Len(effects) : effects[i].op # "call"
        /\ effects' =
             Append(effects,
                    Effect("call", "register_implementors",
                           <<Get(window, "pending_implementors")>>))
        /\ UNCHANGED <<window, implementors, pc, line, loads, completion>>

\* The page evaluates the file: (function() { ... })()
Load ==
  /\ ~Running
  /\ loads < MaxLoads
  /\ loads' = loads + 1
  /\ pc' = "var"
  /\ line' = 1
  /\ completion' = "running"
  /\ UNCHANGED <<window, implementors, effects>>

\* (Variant: the `var` is missing, so the table becomes a global.)
VarImplementorsGlobal ==
  /\ pc = "var"
  /\ implementors' = Object(EmptyProps)
  /\ window' = Put(window, "implementors", Object(EmptyProps))
  /\ pc' = "assign"
  /\ line' = line + 1
  /\ UNCHANGED <<loads, completion, effects>>

\* Line 1: var implementors = {};
VarImplementors ==
  /\ pc = "var"
  /\ implementors' = Object(EmptyProps)
  /\ pc' = "assign"
  /\ line' = line + 1
  /\ UNCHANGED <<window, loads, completion, effects>>

\* After the last assignment statement comes the `if` of line 43.
\* (Variant: the last assignment statement is skipped.)
NextPcEarly(l) == IF l + 2 \in AssignLines THEN "assign" ELSE "if"
NextPc(l) == IF l + 1 \in AssignLines THEN "assign" ELSE "if"

\* Lines 2-42: implementors["<key>"] = [...];
Assign ==
  /\ pc = "assign"
  /\ line \in AssignLines
  /\ implementors' =
       Object(Put(implementors.props, Statements[line].key,
                  Statements[line].value))
  /\ pc' = NextPc(line)
  /\ line' = line + 1
  /\ UNCHANGED <<window, loads, completion, effects>>

\* Line 43: if (window.register_implementors)
IfRegister ==
  /\ pc = "if"
  /\ LET v == Get(window, "register_implementors") IN
       /\ pc' = IF Truthy(v) THEN "call" ELSE "else"
       /\ effects' = Append(effects, Effect("get", "register_implementors", v))
  /\ UNCHANGED <<window, implementors, line, loads, completion>>

\* The function returns (or is left by an exception): its local goes out of
\* scope and the script is no longer running.
Return(how) ==
  /\ pc' = "idle"
  /\ line' = 0
  /\ implementors' = Undefined
  /\ completion' = how

\* window.pending_implementors = value
\* (Variant: the table is merged into a table already in the slot.)
StorePendingMerged(value) ==
  LET old == Get(window, "pending_implementors") IN
    Put(window, "pending_implementors",
        IF old.type = "object" /\ value.type = "object"
        THEN Object([k \in DOMAIN old.props \cup DOMAIN value.props |->
                       IF k \in DOMAIN value.props
                       THEN value.props[k] ELSE old.props[k]])
        ELSE value)
\* (Variant: the assignment names the wrong slot.)
StoreInCallbackSlot(value) == Put(window, "register_implementors", value)
StorePending(value) == Put(window, "pending_implementors", value)

\* (Variant: the `else` is missing, so the table is stored after the call.)
CallRegisterAlsoStores ==
  /\ pc = "call"
  /\ LET f == Get(window, "register_implementors")
         got == Append(effects, Effect("get", "register_implementors", f))
     IN
       IF IsCallable(f)
       THEN /\ effects' =
                 got \o <<Effect("call", "register_implementors",
                                 <<implementors>>),
                          Effect("set", "pending_implementors", implementors)>>
            /\ window' = StorePending(implementors)
            /\ Return(IF f.throws THEN "exception" ELSE "normal")
       ELSE /\ effects' = got
            /\ window' = window
            /\ Return("TypeError")
  /\ UNCHANGED <<loads>>

\* (Variant: a delivered flag; a later run does not call again.)
CallRegisterOnce ==
  /\ pc = "call"
  /\ LET f == Get(window, "register_implementors")
         got == Append(effects, Effect("get", "register_implementors", f))
         delivered == \E i \in 1..Len(effects) : effects[i].op = "call"
     IN
       IF IsCallable(f)
       THEN /\ effects' =
                 IF delivered THEN got
                 ELSE Append(got, Effect("call", "register_implementors",
                                         <<implementors>>))
            /\ Return(IF f.throws /\ ~delivered THEN "exception" ELSE "normal")
       ELSE /\ effects' = got
            /\ Return("TypeError")
  /\ UNCHANGED <<window, loads>>

\* Line 43: {window.register_implementors(implementors);}
\* The slot is read again; a value that is no function raises TypeError, and
\* an exception raised by the function leaves the script.
CallRegister ==
  /\ pc = "call"
  /\ LET f == Get(window, "register_implementors")
         got == Append(effects, Effect("get", "register_implementors", f))
     IN
       IF IsCallable(f)
       THEN /\ effects' =
                 Append(got, Effect("call", "register_implementors",
                                    <<implementors>>))
            /\ Return(IF f.throws THEN "exception" ELSE "normal")
       ELSE /\ effects' = got
            /\ Return("TypeError")
  /\ UNCHANGED <<window, loads>>

\* (Variant: the fallback returns without storing the table.)
SetPendingDropped ==
  /\ pc = "else"
  /\ Return("normal")
  /\ UNCHANGED <<window, loads, effects>>

\* (Variant: after storing the table the script removes one of its keys.)
SetPendingThenTrims ==
  /\ pc = "else"
  /\ window' =
       StorePending(Object(Delete(implementors.props,
                                  CHOOSE k \in DOMAIN implementors.props : TRUE)))
  /\ effects' =
       Append(effects, Effect("set", "pending_implementors", implementors))
  /\ Return("normal")
  /\ UNCHANGED <<loads>>

\* Line 43: else {window.pending_implementors = implementors;}
SetPending ==
  /\ pc = "else"
  /\ window' = StorePending(implementors)
  /\ effects' =
       Append(effects, Effect("set", "pending_implementors", implementors))
  /\ Return("normal")
  /\ UNCHANGED <<loads>>

(***************************************************************************)
(* The host page, between runs of the script.                              *)
(***************************************************************************)
\* The page installs, replaces or removes window.register_implementors.
HostSetCallback ==
  /\ ~Running
  /\ \E v \in CallbackValues :
       /\ v # Get(window, "register_implementors")
       /\ window' = IF v = Undefined
                    THEN Delete(window, "register_implementors")
                    ELSE Put(window, "register_implementors", v)
  /\ UNCHANGED <<implementors, pc, line, loads, completion, effects>>

\* The page collects window.pending_implementors and clears the slot.
HostCollectPending ==
  /\ ~Running
  /\ "pending_implementors" \in DOMAIN window
  /\ window' = Delete(window, "pending_implementors")
  /\ UNCHANGED <<implementors, pc, line, loads, completion, effects>>

Next ==
  \/ Load
  \/ VarImplementors
  \/ Assign
  \/ IfRegister
  \/ CallRegister
  \/ SetPending
  \/ HostSetCallback
  \/ HostCollectPending

Spec == Init /\ [][Next]_vars

(***************************************************************************)
(* Reading the record of effects.                                          *)
(***************************************************************************)
CallbackSlot == "register_implementors"
PendingSlot == "pending_implementors"

\* Run n has returned (normally or by an exception).
Completed(n) == n < loads \/ (n = loads /\ ~Running)

\* What run n did, in order.
EffectsOf(n) == SelectSeq(effects, LAMBDA e : e.load = n)
OpsOf(n, op) == SelectSeq(effects, LAMBDA e : e.load = n /\ e.op = op)

\* The content of the callback slot that run n found at its `if`.
SlotRead(n) == OpsOf(n, "get")[1].value

\* The one call, or the one store, that hands over the complete table.
CallWithRegistry(n) ==
  [load |-> n, op |-> "call", prop |-> CallbackSlot,
   value |-> <<Object(Registry)>>]
StoreOfRegistry(n) ==
  [load |-> n, op |-> "set", prop |-> PendingSlot, value |-> Object(Registry)]

\* A step of the script (any statement of a run, the start included).
ScriptStep == Running \/ Running'

(***************************************************************************)
(* C1. Callback-present path: a run that finds a function in               *)
(* window.register_implementors calls it exactly once before it returns,   *)
(* with the complete table as the only argument, stores nothing, and none  *)
(* of its steps changes window.pending_implementors.                       *)
(***************************************************************************)
C1_CallbackPresent ==
  /\ [](\A n \in 1..loads :
          Completed(n) /\ IsCallable(SlotRead(n)) =>
            /\ OpsOf(n, "call") = <<CallWithRegistry(n)>>
            /\ OpsOf(n, "set") = <<>>)
  /\ [][ScriptStep /\ IsCallable(Get(window, CallbackSlot)) =>
          Get(window', PendingSlot) = Get(window, PendingSlot)]_vars

\* A run has returned after calling the function it found, while stale data
\* was lying in the pending slot.
C1_Witness ==
  /\ ~Running
  /\ loads >= 1
  /\ IsCallable(SlotRead(loads))
  /\ Len(OpsOf(loads, "call")) = 1
  /\ Get(window, PendingSlot) = Object(StaleRegistry)

\* Nothing is installed in the slot: it is absent (undefined) or holds one
\* of the values that stand for nothing (null, 0).
Absent(v) == v \in {Undefined, Null, Number(0)}

(***************************************************************************)
(* C2. Callback-absent path: a run that finds nothing installed in         *)
(* window.register_implementors (undefined, null, 0) returns normally,      *)
(* having stored the complete table in window.pending_implementors exactly *)
(* once and called nothing, and none of its steps changes the callback     *)
(* slot.                                                                   *)
(***************************************************************************)
C2_CallbackAbsent ==
  /\ [](\A n \in 1..loads :
          Completed(n) /\ Absent(SlotRead(n)) =>
            /\ OpsOf(n, "set") = <<StoreOfRegistry(n)>>
            /\ OpsOf(n, "call") = <<>>)
  /\ [][ScriptStep /\ Absent(Get(window, CallbackSlot)) =>
          /\ Get(window', CallbackSlot) = Get(window, CallbackSlot)
          /\ (Running /\ ~Running' =>
                /\ completion' = "normal"
                /\ Get(window', PendingSlot) = Object(Registry))]_vars

\* A run that found the slot empty has returned and the table is in the
\* pending slot.
C2_Witness ==
  /\ ~Running
  /\ loads >= 1
  /\ Absent(SlotRead(loads))
  /\ completion = "normal"
  /\ Get(window, PendingSlot) = Object(Registry)
  /\ CallbackSlot \notin DOMAIN window

\* The deliveries of run n: its calls and its stores.
Deliveries(n) ==
  SelectSeq(effects, LAMBDA e : e.load = n /\ e.op \in {"call", "set"})
\* Run n delivered once, by the call (by the store), and nothing else.
DeliveredByCall(n) ==
  /\ Len(Deliveries(n)) = 1
  /\ Deliveries(n)[1].op = "call"
  /\ Deliveries(n)[1] = CallWithRegistry(n)
DeliveredByStore(n) ==
  /\ Len(Deliveries(n)) = 1
  /\ Deliveries(n)[1].op = "set"
  /\ Deliveries(n)[1] = StoreOfRegistry(n)

(***************************************************************************)
(* C3, as stated: whatever the slots hold when the script starts, a run    *)
(* delivers the table through exactly one of the two paths, exactly once.  *)
(***************************************************************************)
C3_ExactlyOnceAlways ==
  \A n \in 1..loads :
    Completed(n) => DeliveredByCall(n) \/ DeliveredByStore(n)

(***************************************************************************)
(* C3, amended: when the callback slot holds nothing (undefined, null, 0)  *)
(* or a function, a run delivers the table through exactly one of the two  *)
(* paths, exactly once: the call for a function, the pending slot          *)
(* otherwise.  When the slot holds a value that is truthy and no function, *)
(* the run delivers through neither path.                                  *)
(***************************************************************************)
C3_ExactlyOnce ==
  \A n \in 1..loads :
    Completed(n) =>
      IF IsCallable(SlotRead(n)) THEN DeliveredByCall(n)
      ELSE IF Absent(SlotRead(n)) THEN DeliveredByStore(n)
      ELSE Deliveries(n) = <<>>

\* Two runs have returned, one by each path.
C3_Witness ==
  /\ ~Running
  /\ loads = 2
  /\ IsCallable(SlotRead(1)) /\ DeliveredByCall(1)
  /\ Absent(SlotRead(2)) /\ DeliveredByStore(2)

(***************************************************************************)
(* C4, as stated: every run writes exactly one of the two global slots     *)
(* (stated here for the runs that find the callback slot empty or holding  *)
(* a function, where the script does not raise).                           *)
(***************************************************************************)
C4_OneSlotWrittenAlways ==
  \A n \in 1..loads :
    Completed(n) /\ (Absent(SlotRead(n)) \/ IsCallable(SlotRead(n))) =>
      Len(OpsOf(n, "set")) = 1

(***************************************************************************)
(* C4, amended: a run writes at most one of the two global slots.  No step *)
(* of the script changes window.register_implementors, which is only read; *)
(* window.pending_implementors is written once by a run that takes the     *)
(* fallback branch and by no other run, and by no statement but the one of *)
(* the `else`.                                                             *)
(***************************************************************************)
C4_SlotsWritten ==
  /\ [](\A n \in 1..loads :
          Completed(n) =>
            /\ \A i \in 1..Len(EffectsOf(n)) :
                 EffectsOf(n)[i].op = "set" =>
                   EffectsOf(n)[i].prop = PendingSlot
            /\ Len(OpsOf(n, "set")) = IF Absent(SlotRead(n)) THEN 1 ELSE 0)
  /\ [][ScriptStep =>
          /\ Get(window', CallbackSlot) = Get(window, CallbackSlot)
          /\ (window' # window => pc = "else")]_vars

\* A run that called the function has returned without writing a slot, and
\* an earlier run has written the pending slot.
C4_Witness ==
  /\ ~Running
  /\ loads = 2
  /\ Len(OpsOf(1, "set")) = 1
  /\ Len(OpsOf(2, "call")) = 1 /\ OpsOf(2, "set") = <<>>

(***************************************************************************)
(* C5, as stated: whatever the two slots hold, the script runs to          *)
(* completion without raising.                                             *)
(***************************************************************************)
C5_NeverRaises ==
  ~Running /\ loads >= 1 => completion = "normal"

(***************************************************************************)
(* C5, amended: whatever the pending slot holds, the script returns        *)
(* normally when the callback slot holds nothing (undefined, null, 0) or a *)
(* function that returns normally.  It raises TypeError when the slot      *)
(* holds a truthy value that is no function, and an exception raised by    *)
(* the function leaves the script.                                         *)
(***************************************************************************)
C5_RaisesOnlyFromCall ==
  [][Running /\ ~Running' =>
       LET v == Get(window, CallbackSlot) IN
         completion' =
           IF Absent(v) THEN "normal"
           ELSE IF ~IsCallable(v) THEN "TypeError"
           ELSE IF v.throws THEN "exception" ELSE "normal"]_vars

\* A run has returned normally over stale data and a well-behaved function.
C5_Witness ==
  /\ ~Running
  /\ loads >= 1
  /\ completion = "normal"
  /\ SlotRead(loads) = Function(FALSE)
  /\ Get(window, PendingSlot) = Object(StaleRegistry)

\* The tables the script has handed over so far: the argument of each call
\* and the value of each store.
DeliveredTables ==
  {(IF effects[i].op = "call" THEN effects[i].value[1] ELSE effects[i].value) :
     i \in {j \in 1..Len(effects) : effects[j].op \in {"call", "set"}}}

(***************************************************************************)
(* C6. Completeness: in every table the script delivers, each key maps to  *)
(* a sequence of at least one record.                                      *)
(***************************************************************************)
C6_Completeness ==
  \A t \in DeliveredTables :
    \A k \in DOMAIN t.props : Len(t.props[k]) >= 1

\* A table has been delivered by a call and another by a store.
C6_Witness ==
  /\ \E i \in 1..Len(effects) : effects[i].op = "call"
  /\ \E i \in 1..Len(effects) : effects[i].op = "set"
  /\ \A t \in DeliveredTables : DOMAIN t.props # {}

(***************************************************************************)
(* C7. Record shape: in every table the script delivers, every record of   *)
(* every key has a non-empty text, a boolean synthetic and at least one    *)
(* entry in types, and no other field.                                     *)
(***************************************************************************)
C7_RecordShape ==
  \A t \in DeliveredTables :
    \A k \in DOMAIN t.props :
      \A i \in 1..Len(t.props[k]) :
        LET r == t.props[k][i] IN
          /\ DOMAIN r = {"text", "synthetic", "types"}
          /\ Len(r.text) >= 1
          /\ r.synthetic \in BOOLEAN
          /\ Len(r.types) >= 1

\* A delivered table holds a key with several records.
C7_Witness ==
  \E t \in DeliveredTables :
    \E k \in DOMAIN t.props : Len(t.props[k]) >= 2

\* What run n did, without the run's number.
Unnumbered(n) ==
  [i \in 1..Len(EffectsOf(n)) |->
     [op |-> EffectsOf(n)[i].op, prop |-> EffectsOf(n)[i].prop,
      value |-> EffectsOf(n)[i].value]]

(***************************************************************************)
(* C8. Re-invocation: the script keeps no record of having delivered.  Two *)
(* runs that find the same content in the callback slot do the same, the   *)
(* calls made so far are as many as the runs that found a function, each   *)
(* with the complete table, and a run that finds the slot still empty      *)
(* stores the complete table in the pending slot again.                    *)
(***************************************************************************)
C8_Reinvocation ==
  /\ \A m, n \in 1..loads :
       Completed(m) /\ Completed(n) /\ SlotRead(m) = SlotRead(n) =>
         Unnumbered(m) = Unnumbered(n)
  /\ Len(SelectSeq(effects, LAMBDA e : e.op = "call")) =
       Cardinality({n \in 1..loads : Completed(n) /\ IsCallable(SlotRead(n))})
  /\ \A i \in 1..Len(effects) :
       effects[i].op = "call" => effects[i].value = <<Object(Registry)>>
  /\ \A n \in 1..loads :
       Completed(n) /\ Absent(SlotRead(n)) =>
         OpsOf(n, "set") = <<StoreOfRegistry(n)>>

\* The script has run twice with a function installed and called it twice.
C8_Witness ==
  /\ ~Running
  /\ loads >= 2
  /\ IsCallable(SlotRead(1)) /\ IsCallable(SlotRead(2))
  /\ Len(SelectSeq(effects, LAMBDA e : e.op = "call")) >= 2

(***************************************************************************)
(* C9. Last writer wins: the statement of the `else` leaves exactly the    *)
(* complete table of this file in window.pending_implementors, whatever    *)
(* the slot held before; nothing of the earlier content is kept.           *)
(***************************************************************************)
C9_LastWriterWins ==
  [][pc = "else" =>
       /\ Get(window', PendingSlot) = Object(Registry)
       /\ DOMAIN Get(window', PendingSlot).props = Keys]_vars

\* The fallback branch is about to store over the table of another file.
C9_Witness ==
  /\ pc = "else"
  /\ Get(window, PendingSlot) = Object(StaleRegistry)
  /\ DOMAIN StaleRegistry \cap Keys = {}

(***************************************************************************)
(* C10. One synchronous step: while the script runs, every step is a       *)
(* statement of the script, so the page changes neither slot between the   *)
(* `if` and the delivery; at the delivery the callback slot still holds    *)
(* what the `if` read, and the call reads the value the `if` read.         *)
(***************************************************************************)
C10_NoInterleaving ==
  /\ [](pc \in {"call", "else"} =>
          Get(window, CallbackSlot) = effects[Len(effects)].value)
  /\ [](\A n \in 1..loads :
          \A i \in 1..Len(OpsOf(n, "get")) :
            OpsOf(n, "get")[i].value = SlotRead(n))
  /\ [][Running => (pc' # pc \/ line' # line) /\ loads' = loads]_vars

\* The script stands between the `if` and the call, in a second run, after
\* the page replaced what the first run had found in the slot.
C10_Witness ==
  /\ pc = "call"
  /\ loads = 2
  /\ SlotRead(1) # SlotRead(2)
  /\ IsCallable(Get(window, CallbackSlot))

(***************************************************************************)
(* C11, as stated: the script takes the call branch exactly when the       *)
(* callback slot holds a function, and the fallback branch for every other *)
(* content of the slot.                                                    *)
(***************************************************************************)
C11_BranchByCallability ==
  pc \in {"call", "else"} =>
    (pc = "call" <=> IsCallable(Get(window, CallbackSlot)))

(***************************************************************************)
(* C11, amended: the script takes the call branch exactly when the         *)
(* callback slot holds a truthy value, a function or not, and the fallback *)
(* branch exactly when it holds a falsy one (undefined, null, 0).  Only a  *)
(* run on the call branch reads the slot a second time, for the call.      *)
(***************************************************************************)
C11_BranchByTruthiness ==
  /\ pc \in {"call", "else"} =>
       (pc = "else" <=> Absent(Get(window, CallbackSlot)))
  /\ \A n \in 1..loads :
       Completed(n) =>
         Len(OpsOf(n, "get")) = IF Absent(SlotRead(n)) THEN 1 ELSE 2

\* After a run that took the fallback branch, a second run stands on the
\* call branch with an object in the slot that is no function.
C11_Witness ==
  /\ pc = "call"
  /\ loads = 2
  /\ Absent(SlotRead(1)) /\ Len(OpsOf(1, "set")) = 1
  /\ Get(window, CallbackSlot) = Object(EmptyProps)

(***************************************************************************)
(* C12. Construction precedes delivery: the callback slot is not read      *)
(* while keys are still being assigned; from the `if` on, the local table  *)
(* is the complete one, and every table passed to the callback or stored   *)
(* in the pending slot has all 41 keys.                                    *)
(***************************************************************************)
C12_ConstructionFirst ==
  /\ pc \in {"var", "assign"} => EffectsOf(loads) = <<>>
  /\ pc \in {"if", "call", "else"} =>
       /\ implementors = Object(Registry)
       /\ Cardinality(DOMAIN implementors.props) = 41
  /\ \A t \in DeliveredTables :
       /\ t = Object(Registry)
       /\ Cardinality(DOMAIN t.props) = 41

\* Both paths have delivered a table of 41 keys.
C12_Witness ==
  /\ \E i \in 1..Len(effects) :
       /\ effects[i].op = "call"
       /\ Cardinality(DOMAIN effects[i].value[1].props) = 41
  /\ \E i \in 1..Len(effects) :
       /\ effects[i].op = "set"
       /\ Cardinality(DOMAIN effects[i].value.props) = 41

\* The argument list of a call with one argument.
SoleArgument(v) == <<v>>

(***************************************************************************)
(* C13. The table is not written after its last key is assigned: from the  *)
(* `if` on the local table is the complete one and no statement changes it *)
(* while the script runs; the statement that hands it over is the last of  *)
(* the run and hands over the table as built; and no step of the script    *)
(* alters a table that is already in the pending slot or was already       *)
(* passed to the callback.                                                 *)
(***************************************************************************)
C13_NeverMutated ==
  /\ [][(pc \in {"if", "call", "else"}) =>
          LET last == effects'[Len(effects')]
              handsOver == Len(effects') > Len(effects)
                             /\ last.op \in {"call", "set"}
          IN  /\ implementors = Object(Registry)
              /\ (Running' => implementors' = implementors)
              /\ (pc = "else" => Get(window', PendingSlot) = implementors)
              /\ (handsOver => ~Running')
              /\ (handsOver /\ last.op = "call" =>
                    last.value = SoleArgument(implementors))
              /\ (handsOver /\ last.op = "set" =>
                    last.value = implementors)]_vars
  /\ [][/\ SubSeq(effects', 1, Len(effects)) = effects
        /\ (ScriptStep /\ Get(window, PendingSlot) = Object(Registry) =>
              Get(window', PendingSlot) = Object(Registry))]_vars

\* The table a first run stored is still whole in the pending slot after a
\* second run has passed its own table to the callback.
C13_Witness ==
  /\ ~Running
  /\ loads = 2
  /\ DeliveredByStore(1) /\ DeliveredByCall(2)
  /\ Get(window, PendingSlot) = Object(Registry)

(***************************************************************************)
(* C14. No deferred delivery: what a run did is settled when it returns.   *)
(* Nothing is added to a finished run afterwards, so a run that stored the *)
(* table never calls the callback, also when the page installs one later;  *)
(* and the stored table leaves the pending slot only when the page removes *)
(* it, never by a step of the script.                                      *)
(***************************************************************************)
C14_NoDeferredDelivery ==
  /\ [][\A n \in 1..loads :
          Completed(n) =>
            SelectSeq(effects', LAMBDA e : e.load = n) = EffectsOf(n)]_vars
  /\ [](\A n \in 1..loads :
          Completed(n) /\ Len(OpsOf(n, "set")) >= 1 => OpsOf(n, "call") = <<>>)
  /\ [][Get(window, PendingSlot) = Object(Registry)
          /\ Get(window', PendingSlot) # Object(Registry) =>
            /\ ~ScriptStep
            /\ PendingSlot \notin DOMAIN window']_vars

\* A run stored the table and returned; the page then installed a function;
\* the table is still in the pending slot and nothing has been called.
C14_Witness ==
  /\ ~Running
  /\ loads = 1
  /\ DeliveredByStore(1)
  /\ Get(window, CallbackSlot) = Function(FALSE)
  /\ Get(window, PendingSlot) = Object(Registry)
  /\ \A i \in 1..Len(effects) : effects[i].op # "call"

(***************************************************************************)
(* C15. Frame: a step of the script adds, removes or changes no property   *)
(* of the global object other than pending_implementors; the table is      *)
(* never a global named implementors, and the local is gone when the       *)
(* script is not running.                                                  *)
(***************************************************************************)
C15_Frame ==
  /\ [][ScriptStep =>
          \A k \in (DOMAIN window \cup DOMAIN window') \ {PendingSlot} :
            /\ k \in DOMAIN window
            /\ k \in DOMAIN window'
            /\ window'[k] = window[k]]_vars
  /\ []("implementors" \notin DOMAIN window)
  /\ [](~Running => implementors = Undefined)

\* A run over an empty global object has returned: the pending slot is the
\* only global there is.
C15_Witness ==
  /\ ~Running
  /\ loads = 1
  /\ Len(effects) = 2
  /\ DOMAIN window = {PendingSlot}
  /\ implementors = Undefined

(***************************************************************************)
(* C16. Keys are unique in construction: each assignment statement creates *)
(* a key the table does not have yet, so after k statements the table has  *)
(* k keys and no record list is replaced; there are 41 statements and the  *)
(* delivered table has exactly 41 keys.                                    *)
(***************************************************************************)
C16_KeysUnique ==
  /\ Cardinality(AssignLines) = 41
  /\ pc = "assign" =>
       /\ Statements[line].key \notin DOMAIN implementors.props
       /\ Cardinality(DOMAIN implementors.props) =
            Cardinality({l \in AssignLines : l < line})
  /\ pc = "if" => Cardinality(DOMAIN implementors.props) = 41
  /\ \A t \in DeliveredTables : Cardinality(DOMAIN t.props) = 41

\* The last assignment statement is about to add the 41st key.
C16_Witness ==
  /\ pc = "assign"
  /\ line = 42
  /\ Cardinality(DOMAIN implementors.props) = 40
  /\ Statements[line].key \notin DOMAIN implementors.props

(***************************************************************************)
(* C17. Every record of every table the script delivers has synthetic      *)
(* equal to false.                                                         *)
(***************************************************************************)
C17_NeverSynthetic ==
  \A t \in DeliveredTables :
    \A k \in DOMAIN t.props :
      \A i \in 1..Len(t.props[k]) : t.props[k][i].synthetic = FALSE

\* A table with all its 86 records has been delivered.
C17_Witness ==
  \E t \in DeliveredTables :
    Cardinality({<<k, i>> \in (DOMAIN t.props) \X (1..8) :
                   i <= Len(t.props[k])}) = 86

=============================================================================
